---- MODULE Spec2Model ----
(***************************************************************************)
(* Model of the native-git queries of packages/native-git:                 *)
(*   get_diff_summary    (diff_summary.rs)                                 *)
(*   get_current_branch, get_default_branch (branch.rs)                    *)
(*   get_status_summary, count_file_lines   (status_summary.rs)            *)
(* Every query is a stateless read of a repository: the repository is the  *)
(* environment, drawn in Init; an action is one whole call and leaves its  *)
(* arguments in `call` and its return value in `result`. The queries share *)
(* no state, so a behaviour is one query on one repository.                *)
(*                                                                         *)
(* Strings are sequences of tokens (a token is a run of characters that    *)
(* the operations below never split); Option values are sequences of       *)
(* length at most one: None == <<>>, Some(x) == <<x>>.                     *)
(***************************************************************************)
EXTENDS Integers, Sequences, FiniteSets, TLC

VARIABLES
  stream,        \* the index-worktree status iterator's items, in enumeration order
  head,          \* HEAD of the repository opened from the working-tree path
  refs,          \* its reference store, in enumeration order
  parents,       \* the commit graph: parents[c] is the ordered parent list of commit c
  project_refs,  \* the reference store of the repository at project_cwd
  buffer,        \* a byte buffer handed to count_file_lines on its own
  faults,        \* the calls into gix that fail in this repository
  call,          \* the last call and its arguments
  result         \* what the last call returned

vars == <<stream, head, refs, parents, project_refs, buffer, faults, call, result>>

env == <<stream, head, refs, parents, project_refs, buffer, faults>>

----------------------------------------------------------------------------
(* Option and Result values *)

None == <<>>

Some(x) == <<x>>

Ok(v) == [ok |-> TRUE, value |-> v]

Err(why) == [ok |-> FALSE, value |-> why]

Min(a, b) == IF a < b THEN a ELSE b

----------------------------------------------------------------------------
(* str::contains and str::strip_prefix on token strings *)

\* s.contains(pat): pat occurs in s as a contiguous run (true for the empty pat)
contains(s, pat) ==
  \E i \in 0..(Len(s) - Len(pat)) : SubSeq(s, i + 1, i + Len(pat)) = pat

\* s.strip_prefix(pre): Some(rest) when s starts with pre, else None
strip_prefix(s, pre) ==
  IF Len(s) >= Len(pre) /\ SubSeq(s, 1, Len(pre)) = pre
    THEN Some(SubSeq(s, Len(pre) + 1, Len(s)))
    ELSE None

----------------------------------------------------------------------------
(* diff_summary.rs *)

\* The tags an index-worktree item carries (gix::status::index_worktree::Item
\* and, for a Modification, its EntryStatus / Change).
ModificationKinds ==
  {"Conflict", "Removed", "Type", "Modification", "SubmoduleModification",
   "NeedsUpdate", "IntentToAdd"}

ItemKinds == ModificationKinds \cup {"DirectoryContents", "Rewrite"}

\* the match of get_diff_summary: the status string of one item
classify(kind) ==
  CASE kind = "Conflict"              -> "modified"
    [] kind = "Removed"               -> "deleted"
    [] kind = "Type"                  -> "modified"
    [] kind = "Modification"          -> "modified"
    [] kind = "SubmoduleModification" -> "modified"
    [] kind = "NeedsUpdate"           -> "modified"
    [] kind = "IntentToAdd"           -> "added"
    [] kind = "DirectoryContents"     -> "added"
    [] kind = "Rewrite"               -> "renamed"

matches_first_pattern_only(path, patterns) ==
  Len(patterns) > 0 /\ contains(path, patterns[1])

matches_any_pattern(path, patterns) ==
  \E i \in 1..Len(patterns) : contains(path, patterns[i])

\* `!exclude.is_empty() && matches_any_pattern(&path, &exclude)`: the item is skipped
excluded(path, exclude) ==
  exclude # <<>> /\ matches_any_pattern(path, exclude)

FileDiffSummaryItem(item) ==
  [path |-> item.rela_path, status |-> classify(item.kind), staged |-> FALSE]

\* the for loop over status_iter: all_files after the first n items
RECURSIVE collect_files(_, _, _)
collect_files(items, n, exclude) ==
  IF n = 0 THEN <<>>
  ELSE LET rest == collect_files(items, n - 1, exclude)
           item == items[n]
       IN  IF excluded(item.rela_path, exclude)
             THEN rest
             ELSE Append(rest, FileDiffSummaryItem(item))

is_truncated_off_by_one(max, len) == max > 0 /\ len >= max

\* `max > 0 && all_files.len() > max`
is_truncated(max, len) == max > 0 /\ len > max

\* Vec::truncate(max)
truncate(files, max) == SubSeq(files, 1, Min(max, Len(files)))

\* index of the first item of the iterator that is an Err, 0 if there is none
FirstErr(items) ==
  IF \E i \in 1..Len(items) : items[i].kind = "Err"
    THEN CHOOSE i \in 1..Len(items) :
           /\ items[i].kind = "Err"
           /\ \A j \in 1..(i - 1) : items[j].kind # "Err"
    ELSE 0

get_diff_summary(items, exclude_patterns, max_files) ==
  LET exclude   == IF exclude_patterns = None THEN <<>> ELSE exclude_patterns[1]
      max       == IF max_files = None THEN 0 ELSE max_files[1]
      all_files == collect_files(items, Len(items), exclude)
      total     == Len(all_files)   \* `as u32`: lengths here stay below 2^32
      truncated == is_truncated(max, Len(all_files))
  IN  IF FirstErr(items) # 0
        THEN Err("Status iteration error")
        ELSE Ok([files     |-> IF truncated THEN truncate(all_files, max) ELSE all_files,
                 total     |-> total,
                 truncated |-> truncated])

----------------------------------------------------------------------------
(* The reference store as the queries see it through gix *)

\* One entry of the reference store: a direct reference holds a commit id, a
\* symbolic one (sym # <<>>) the full name it points to. readable = FALSE is an
\* entry the iterators yield as Err.
Ref(name, sym, id, readable) ==
  [name |-> name, sym |-> sym, id |-> id, readable |-> readable]

RefsHeads == <<"refs/", "heads/">>

RefsRemotes == <<"refs/", "remotes/">>

OriginPrefix == <<"origin/">>

\* FullName::shorten: the name without its category prefix
shorten(name) ==
  IF strip_prefix(name, RefsHeads) # None THEN strip_prefix(name, RefsHeads)[1]
  ELSE IF strip_prefix(name, RefsRemotes) # None THEN strip_prefix(name, RefsRemotes)[1]
  ELSE name

\* Repository::find_reference(name): the entry stored under the full name, not
\* followed when it is symbolic; None when there is none (the Err case)
find_reference(store, name) ==
  IF \E i \in 1..Len(store) : store[i].name = name /\ store[i].readable
    THEN Some(store[CHOOSE i \in 1..Len(store) : store[i].name = name /\ store[i].readable])
    ELSE None

\* Platform::local_branches: the items of the iterator over refs/heads/
local_branches(store) ==
  SelectSeq(store, LAMBDA r : strip_prefix(r.name, RefsHeads) # None)

head_ref_of_any_commit(h) == IF h.kind # "Unborn" THEN Some(h.name) ELSE None

\* Repository::head_ref: the reference HEAD points to, None when HEAD is
\* detached or unborn
head_ref(h) == IF h.kind = "Symbolic" THEN Some(h.name) ELSE None

----------------------------------------------------------------------------
(* branch.rs *)

get_current_branch(h) ==
  LET r == head_ref(h)
  IN  Ok(IF r = None THEN None ELSE Some(shorten(r[1])))

\* the names pushed by the loop over local_refs: an Err item is skipped
RECURSIVE branch_names(_, _)
branch_names(items, n) ==
  IF n = 0 THEN <<>>
  ELSE IF items[n].readable
         THEN Append(branch_names(items, n - 1), shorten(items[n].name))
         ELSE branch_names(items, n - 1)

\* Vec::contains
vec_contains(v, x) == \E i \in 1..Len(v) : v[i] = x

\* the `if let Some(stripped) = name.strip_prefix("origin/")` of origin_head
strip_origin(name) ==
  IF strip_prefix(name, OriginPrefix) # None
    THEN strip_prefix(name, OriginPrefix)[1]
    ELSE name

common_branch_master_first(names) ==
  IF vec_contains(names, <<"master">>) THEN Some(<<"master">>)
  ELSE IF vec_contains(names, <<"main">>) THEN Some(<<"main">>)
  ELSE IF vec_contains(names, <<"develop">>) THEN Some(<<"develop">>)
  ELSE IF names = <<>> THEN None ELSE Some(names[1])

\* the checks of the common branch names, in the order the code makes them
common_branch(names) ==
  IF vec_contains(names, <<"main">>) THEN Some(<<"main">>)
  ELSE IF vec_contains(names, <<"master">>) THEN Some(<<"master">>)
  ELSE IF vec_contains(names, <<"develop">>) THEN Some(<<"develop">>)
  ELSE IF names = <<>> THEN None ELSE Some(names[1])

get_default_branch(store) ==
  LET origin_head == find_reference(store, RefsRemotes \o OriginPrefix \o <<"HEAD">>)
      locals      == local_branches(store)
  IN  IF origin_head # None
        THEN Ok(Some(strip_origin(shorten(origin_head[1].name))))
        ELSE Ok(common_branch(branch_names(locals, Len(locals))))

\* Platform::remote_branches: the items of the iterator over refs/remotes/
remote_branches(store) ==
  SelectSeq(store, LAMBDA r : strip_prefix(r.name, RefsRemotes) # None)

\* the loop over remote_refs: seen and branches after the first n items. An Err
\* item is skipped, a name containing "HEAD" is skipped, "origin/" is stripped
\* and a name is pushed when seen.insert says it is new
RECURSIVE remote_loop(_, _)
remote_loop(items, n) ==
  IF n = 0 THEN [seen |-> {}, branches |-> <<>>]
  ELSE LET acc    == remote_loop(items, n - 1)
           name   == shorten(items[n].name)
           branch == strip_origin(name)
       IN  IF ~items[n].readable THEN acc
           ELSE IF contains(name, <<"HEAD">>) THEN acc
           ELSE IF branch \in acc.seen THEN acc
           ELSE [seen |-> acc.seen \cup {branch}, branches |-> Append(acc.branches, branch)]

list_branches(store, h) ==
  LET locals   == local_branches(store)
      remotes  == remote_branches(store)
      first    == branch_names(locals, Len(locals))
      second   == IF first = <<>> THEN remote_loop(remotes, Len(remotes)).branches ELSE first
      third    == IF second = <<>> /\ head_ref(h) # None
                    THEN <<shorten(head_ref(h)[1])>>
                    ELSE second
  IN  Ok(third)

----------------------------------------------------------------------------
(* status_summary.rs: byte buffers and count_file_lines *)

(* A byte buffer (Vec<u8>, &[u8]) is held run-length encoded: the sequence    *)
(* <<[byte |-> b1, n |-> n1], [byte |-> b2, n |-> n2], ...>> stands for n1     *)
(* bytes b1 followed by n2 bytes b2 and so on, every n >= 1 and adjacent runs *)
(* of different bytes. A loop of the code over the bytes is a loop over the   *)
(* runs here, each run accounting for its n bytes at once.                    *)

Run(byte, n) == [byte |-> byte, n |-> n]

NUL == 0

LF == 10

MAX_UNTRACKED_TO_COUNT == 200

MAX_UNTRACKED_FILE_SIZE == 512 * 1024

BINARY_CHECK_LEN == 8192

\* data.len()
RECURSIVE BLen(_)
BLen(data) ==
  IF data = <<>> THEN 0 ELSE data[1].n + BLen(Tail(data))

\* `for &b in &data[..check_len] { if b == 0 { return true } }`: r is the run the
\* scan stands at, off the offset of its first byte
RECURSIVE null_in_prefix(_, _, _, _)
null_in_prefix(data, r, off, check_len) ==
  IF r > Len(data) \/ off >= check_len THEN FALSE
  ELSE IF data[r].byte = NUL THEN TRUE
  ELSE null_in_prefix(data, r + 1, off + data[r].n, check_len)

check_len_off_by_one(len) == Min(len, BINARY_CHECK_LEN + 1)

\* `data.len().min(8192)`
check_len(len) == Min(len, BINARY_CHECK_LEN)

\* the binary check count_file_lines and count_lines_for_entry share
is_binary(data) == null_in_prefix(data, 1, 0, check_len(BLen(data)))

\* `for &b in &data { if b == 0x0a { n += 1 } }`
RECURSIVE count_newlines(_)
count_newlines(data) ==
  IF data = <<>> THEN 0
  ELSE (IF data[1].byte = LF THEN data[1].n ELSE 0) + count_newlines(Tail(data))

\* data[data.len() - 1]
last_byte(data) == data[Len(data)].byte

\* `if !data.is_empty() && data[data.len() - 1] != 0x0a { n += 1 }`
final_line(data, n) ==
  IF data # <<>> /\ last_byte(data) # LF THEN n + 1 ELSE n

\* count_file_lines, from the bytes std::fs::read returned (None: the read failed)
count_file_lines(read) ==
  IF read = None THEN 0
  ELSE LET data == read[1]
       IN  IF data = <<>> THEN 0
           ELSE IF is_binary(data) THEN 0
           ELSE final_line(data, count_newlines(data))

----------------------------------------------------------------------------
(* status_summary.rs: count_lines_for_entry and the LineCounter sink *)

\* InternedInput::new: the tokens of a buffer are its lines, each with its
\* terminating \n; cur is the line being read, acc the lines read so far
RECURSIVE tokenize(_, _, _, _)
tokenize(data, r, cur, acc) ==
  IF r > Len(data) THEN (IF cur = <<>> THEN acc ELSE Append(acc, cur))
  ELSE IF data[r].byte = LF
    THEN tokenize(data, r + 1, <<>>,
                  Append(acc, Append(cur, Run(LF, 1)))
                    \o [k \in 1..(data[r].n - 1) |-> <<Run(LF, 1)>>])
    ELSE tokenize(data, r + 1, Append(cur, data[r]), acc)

lines(data) == tokenize(data, 1, <<>>, <<>>)

\* length of a longest common subsequence of a[i..] and b[j..]
RECURSIVE lcs(_, _, _, _)
lcs(a, b, i, j) ==
  IF i > Len(a) \/ j > Len(b) THEN 0
  ELSE IF a[i] = b[j] THEN 1 + lcs(a, b, i + 1, j + 1)
  ELSE LET x == lcs(a, b, i + 1, j)
           y == lcs(a, b, i, j + 1)
       IN  IF x >= y THEN x ELSE y

\* gix::diff::blob::diff: the changes handed to the sink, as pairs of token
\* ranges [start, end). The script of the Histogram algorithm is taken to be a
\* minimal one, and is reported one token at a time (the sink only sums the
\* lengths of the ranges).
RECURSIVE changes(_, _, _, _)
changes(a, b, i, j) ==
  IF i > Len(a) /\ j > Len(b) THEN <<>>
  ELSE IF i <= Len(a) /\ j <= Len(b) /\ a[i] = b[j] THEN changes(a, b, i + 1, j + 1)
  ELSE IF i <= Len(a) /\ (j > Len(b) \/ lcs(a, b, i + 1, j) >= lcs(a, b, i, j + 1))
    THEN <<[before |-> <<i - 1, i>>, after |-> <<j - 1, j - 1>>]>> \o changes(a, b, i + 1, j)
    ELSE <<[before |-> <<i - 1, i - 1>>, after |-> <<j - 1, j>>]>> \o changes(a, b, i, j + 1)

\* LineCounter::process_change
process_change(self, before, after) ==
  [added   |-> self.added + (after[2] - after[1]),
   deleted |-> self.deleted + (before[2] - before[1])]

\* the sink after the first n changes, from LineCounter::default()
RECURSIVE sink_after(_, _)
sink_after(chs, n) ==
  IF n = 0 THEN [added |-> 0, deleted |-> 0]
  ELSE process_change(sink_after(chs, n - 1), chs[n].before, chs[n].after)

\* LineCounter::finish
finish(self) == <<self.added, self.deleted>>

\* `.unwrap_or(b"")`
unwrap_or_empty(opt) == IF opt = None THEN <<>> ELSE opt[1]

\* count_lines_for_entry, from the blob found in HEAD's tree and the bytes read
\* from disk (None: the lookup or the read failed)
count_lines_for_entry(old_data, new_data) ==
  LET old_bytes == unwrap_or_empty(old_data)
      new_bytes == unwrap_or_empty(new_data)
      chs       == changes(lines(old_bytes), lines(new_bytes), 1, 1)
  IN  IF is_binary(old_bytes) \/ is_binary(new_bytes)
        THEN <<0, 0>>
        ELSE finish(sink_after(chs, Len(chs)))

----------------------------------------------------------------------------
(* status_summary.rs: phase 1 of get_status_summary *)

\* modified_rel_paths: the Modification items, in enumeration order
modified_rel_paths(items) ==
  SelectSeq(items, LAMBDA it : it.kind \in ModificationKinds)

\* untracked_paths: the DirectoryContents items, in enumeration order
untracked_paths(items) ==
  SelectSeq(items, LAMBDA it : it.kind = "DirectoryContents")

\* the loop over modified_rel_paths: <<added, deleted>> after the first n
RECURSIVE modified_lines(_, _)
modified_lines(paths, n) ==
  IF n = 0 THEN <<0, 0>>
  ELSE LET acc == modified_lines(paths, n - 1)
           one == count_lines_for_entry(paths[n].head_blob, paths[n].disk)
       IN  <<acc[1] + one[1], acc[2] + one[2]>>

reached_cap_one_late(i) == i > MAX_UNTRACKED_TO_COUNT

\* `if i >= MAX_UNTRACKED_TO_COUNT { break; }`
reached_cap(i) == i >= MAX_UNTRACKED_TO_COUNT

\* the `continue` cases of the loop: metadata failed, or the length is 0 or
\* over the ceiling
skip_untracked(meta) ==
  IF meta = None THEN TRUE
  ELSE meta[1] = 0 \/ meta[1] > MAX_UNTRACKED_FILE_SIZE

\* one iteration of the loop over untracked_paths.iter().enumerate(): what the
\* path at index i (0-based) adds to lines_added. The break at the cap ends
\* every later iteration too, so an index at or past it adds nothing.
untracked_lines_at(paths, i) ==
  IF reached_cap(i) THEN 0
  ELSE IF skip_untracked(paths[i + 1].size) THEN 0
  ELSE count_file_lines(paths[i + 1].disk)

\* what the iterations lo..hi-1 of the loop add to lines_added (summed by
\* halves; the sum does not depend on the grouping)
RECURSIVE untracked_lines(_, _, _)
untracked_lines(paths, lo, hi) ==
  IF lo >= hi THEN 0
  ELSE IF hi = lo + 1 THEN untracked_lines_at(paths, lo)
  ELSE LET mid == (lo + hi) \div 2
       IN  untracked_lines(paths, lo, mid) + untracked_lines(paths, mid, hi)

----------------------------------------------------------------------------
(* The commit graph as the queries see it through gix *)

Range(f) == {f[i] : i \in DOMAIN f}

\* the commits reachable from c, c included (a parent has a smaller id)
RECURSIVE ancestors(_, _)
ancestors(graph, c) ==
  {c} \cup UNION {ancestors(graph, p) : p \in Range(graph[c])}

\* Repository::merge_base(one, two): the results the call can have. It yields a
\* best common ancestor (one that is no ancestor of another common ancestor);
\* which one when there are several is left to gix; None is the Err of two
\* commits without a common ancestor.
merge_base(graph, one, two) ==
  LET common == ancestors(graph, one) \cap ancestors(graph, two)
      best   == {c \in common : \A d \in common \ {c} : c \notin ancestors(graph, d)}
  IN  IF best = {} THEN {None} ELSE {Some(c) : c \in best}

\* the parents of c that the walk has not seen, in parent order
RECURSIVE unseen_parents(_, _, _)
unseen_parents(ps, n, seen) ==
  IF n = 0 THEN <<>>
  ELSE LET before == unseen_parents(ps, n - 1, seen)
       IN  IF ps[n] \in seen \/ ps[n] \in Range(before) THEN before
           ELSE Append(before, ps[n])

\* One call into gix that fails: `at` is the commit a walk fails to read for
\* "walk_item", 0 for the calls made once.
Fault(what, at) == [what |-> what, at |-> at]

fails(fs, what) == Fault(what, 0) \in fs

\* rev_walk([tip]).all(): the items the default (breadth-first) traversal
\* yields, Ok(commit) or, for a commit it fails to read, an Err; the parents of
\* a commit that was not read are not visited through it
RECURSIVE walk(_, _, _, _, _)
walk(graph, queue, seen, out, fs) ==
  IF queue = <<>> THEN out
  ELSE LET c   == Head(queue)
           new == unseen_parents(graph[c], Len(graph[c]), seen)
       IN  IF Fault("walk_item", c) \in fs
             THEN walk(graph, Tail(queue), seen, Append(out, Err("walk")), fs)
             ELSE walk(graph, Tail(queue) \o new, seen \cup Range(new), Append(out, Ok(c)), fs)

rev_walk(graph, tip, fs) == walk(graph, <<tip>>, {tip}, <<>>, fs)

\* Reference::into_fully_peeled_id: the commit a reference leads to, None when
\* a symbolic reference dangles
RECURSIVE into_fully_peeled_id(_, _, _)
into_fully_peeled_id(store, r, fuel) ==
  IF r.sym = <<>> THEN Some(r.id)
  ELSE IF fuel = 0 \/ find_reference(store, r.sym) = None THEN None
  ELSE into_fully_peeled_id(store, find_reference(store, r.sym)[1], fuel - 1)

\* find_reference(name) followed by into_fully_peeled_id, None if either fails
resolve(store, name) ==
  IF find_reference(store, name) = None THEN None
  ELSE into_fully_peeled_id(store, find_reference(store, name)[1], Len(store))

\* Repository::head_commit: None (the Err) when HEAD is unborn
head_commit(h) == IF h.kind = "Unborn" THEN None ELSE Some(h.id)

----------------------------------------------------------------------------
(* status_summary.rs: phase 2 of get_status_summary *)

\* format!("refs/remotes/origin/{}", branch)
upstream_ref_name(branch) == RefsRemotes \o OriginPrefix \o branch

\* format!("refs/heads/{}", name)
heads_ref_name(name) == RefsHeads \o name

\* the commit HEAD is compared with to count unpushed commits: the upstream's
\* when the remote branch exists, else the base branch's when one is given
ahead_target(store, branch, base_branch) ==
  IF find_reference(store, upstream_ref_name(branch)) # None
    THEN resolve(store, upstream_ref_name(branch))
  ELSE IF base_branch # None
    THEN resolve(store, heads_ref_name(base_branch[1]))
  ELSE None

\* `for commit_info in iter { if let Ok(info) = commit_info { if info.id ==
\* base_id { break; } count += 1 } }`: an Err item is passed over
RECURSIVE count_until(_, _, _)
count_until(order, base_id, i) ==
  IF i > Len(order) THEN 0
  ELSE IF ~order[i].ok THEN count_until(order, base_id, i + 1)
  ELSE IF order[i].value = base_id THEN 0
  ELSE 1 + count_until(order, base_id, i + 1)

unpushed_count_of_unstarted_walk(graph, head_id, mb, fs) ==
  IF mb = None THEN 0 ELSE count_until(rev_walk(graph, head_id, fs), mb[1], 1)

\* unpushed_commit_count, mb being what repo.merge_base returned; 0 when there
\* is no merge base or `walk.all()` is an Err
unpushed_commit_count(graph, head_id, mb, fs) ==
  IF mb = None \/ fails(fs, "walk") THEN 0
  ELSE count_until(rev_walk(graph, head_id, fs), mb[1], 1)

\* the two tips of the merged check, <<base_id, branch_id>>, in the repository
\* at project_cwd (the worktree's own when project_cwd is None); None when the
\* base branch is not given, gix::open(project_path) fails or a reference does
\* not resolve
merged_targets(store, project_store, branch, base_branch, project_cwd, fs) ==
  LET pstore == IF project_cwd = None THEN store ELSE project_store
  IN  IF base_branch = None \/ fails(fs, "project_open") THEN None
      ELSE IF resolve(pstore, heads_ref_name(base_branch[1])) = None THEN None
      ELSE IF resolve(pstore, heads_ref_name(branch)) = None THEN None
      ELSE Some(<<resolve(pstore, heads_ref_name(base_branch[1]))[1],
                  resolve(pstore, heads_ref_name(branch))[1]>>)

\* `is_merged_into_base = mb_id != branch_id.detach()`, false without a merge base
is_merged_into_base(mb, branch_id) ==
  IF mb = None THEN FALSE ELSE mb[1] # branch_id

GitStatusSummary(dirty, unpushed, remote, merged, added, deleted) ==
  [dirty_file_count |-> dirty, unpushed_commit_count |-> unpushed,
   has_remote_branch |-> remote, is_merged_into_base |-> merged,
   lines_added |-> added, lines_deleted |-> deleted]

dirty_ignoring_rewrites(items) ==
  Len(SelectSeq(items, LAMBDA it : it.kind # "Rewrite"))

\* `dirty_file_count += 1` for every item of the iterator
dirty_file_count(items) == Len(items)

\* get_status_summary; mb_ahead and mb_merged are what the two merge_base calls
\* returned (ignored where the code does not make the call), fs the calls into
\* gix that fail
get_status_summary(items, h, store, graph, project_store, base_branch, project_cwd, mb_ahead, mb_merged, fs) ==
  LET branch_name == head_ref(h)
      modified    == modified_rel_paths(items)
      tally       == modified_lines(modified, Len(modified))
      untracked   == untracked_paths(items)
      added       == tally[1] + untracked_lines(untracked, 0, Len(untracked))
      deleted     == tally[2]
      dirty       == dirty_file_count(items)
  IN  IF fails(fs, "open") THEN Err("Failed to open repo")
      ELSE IF fails(fs, "head_ref") THEN Err("Failed to get HEAD ref")
      ELSE IF head_commit(h) = None \/ fails(fs, "head_commit")
        THEN Err("Failed to get HEAD commit")
      ELSE IF fails(fs, "head_tree") THEN Err("Failed to get HEAD tree")
      ELSE IF fails(fs, "status") THEN Err("Failed to create status")
      ELSE IF fails(fs, "status_iter") THEN Err("Failed to iterate status")
      ELSE IF FirstErr(items) # 0 THEN Err("Status iteration error")
      ELSE IF branch_name = None
        THEN Ok(GitStatusSummary(dirty, 0, FALSE, FALSE, added, deleted))
      ELSE
        LET branch  == shorten(branch_name[1])
            remote  == find_reference(store, upstream_ref_name(branch)) # None
            target  == ahead_target(store, branch, base_branch)
            unpushed == IF target = None THEN 0
                        ELSE unpushed_commit_count(graph, head_commit(h)[1], mb_ahead, fs)
            tips    == merged_targets(store, project_store, branch, base_branch, project_cwd, fs)
            merged  == IF tips = None THEN FALSE
                       ELSE is_merged_into_base(mb_merged, tips[1][2])
        IN  Ok(GitStatusSummary(dirty, unpushed, remote, merged, added, deleted))

----------------------------------------------------------------------------
(* The environment the queries read *)

\* One item of the status iterator. head_blob is the blob HEAD's tree holds at
\* rela_path, disk the bytes std::fs::read returns for the file, size the length
\* std::fs::metadata reports: each None when the lookup or the system call fails.
\* kind "Err" is an item the iterator yields as an error.
Item(kind, rela_path, head_blob, disk, size) ==
  [kind |-> kind, rela_path |-> rela_path, head_blob |-> head_blob,
   disk |-> disk, size |-> size]

\* all sequences over S of length at most n
SeqsUpTo(S, n) == UNION {[1..k -> S] : k \in 0..n}

NoCall == [op |-> "none"]

NoResult == Err("no call yet")

\* values of the variables a specification does not read
NoStream == <<>>
NoHead == [kind |-> "Unborn", name |-> <<>>, id |-> 0]
NoRefs == <<>>
NoParents == <<>>
NoBuffer == <<>>
NoFaults == {}

----------------------------------------------------------------------------
(* Specification SpecDiff: get_diff_summary over bounded status streams *)

MaxStream == 2

DiffPaths == {<<"a", "b">>, <<"b", "a", "a">>}

DiffItems ==
  {Item(k, p, None, None, None) : k \in ItemKinds \cup {"Err"}, p \in DiffPaths}

ExcludeInputs ==
  {None, Some(<<>>), Some(<<<<>>>>), Some(<<<<"a">>>>), Some(<<<<"b", "b">>>>),
   Some(<<<<"a", "a">>, <<"b", "b">>>>), Some(<<<<"b", "b">>, <<"a", "b">>>>),
   Some(<<<<"b", "a">>>>)}

MaxFilesInputs == {None} \cup {Some(k) : k \in 0..(MaxStream + 1)}

InitDiff ==
  /\ stream \in SeqsUpTo(DiffItems, MaxStream)
  /\ head = NoHead
  /\ refs = NoRefs
  /\ parents = NoParents
  /\ project_refs = NoRefs
  /\ buffer = NoBuffer
  /\ faults = NoFaults
  /\ call = NoCall
  /\ result = NoResult

GetDiffSummary ==
  \E exclude_patterns \in ExcludeInputs, max_files \in MaxFilesInputs :
    /\ call = NoCall
    /\ call' = [op |-> "get_diff_summary", exclude_patterns |-> exclude_patterns,
                max_files |-> max_files]
    /\ result' = get_diff_summary(stream, exclude_patterns, max_files)
    /\ UNCHANGED env

NextDiff == GetDiffSummary

SpecDiff == InitDiff /\ [][NextDiff]_vars

----------------------------------------------------------------------------
(* Claims about get_diff_summary *)

DiffCalled == call.op = "get_diff_summary" /\ result.ok

ArgPatterns == IF call.exclude_patterns = None THEN <<>> ELSE call.exclude_patterns[1]

ArgMax == IF call.max_files = None THEN 0 ELSE call.max_files[1]

\* an item whose path holds none of the supplied patterns as a substring
NotExcluded(item) ==
  \A j \in 1..Len(ArgPatterns) : ~contains(item.rela_path, ArgPatterns[j])

\* the non-excluded entries of the stream, in enumeration order
KeptEntries ==
  LET kept == SelectSeq(stream, NotExcluded)
  IN  [i \in 1..Len(kept) |->
         [path |-> kept[i].rela_path, status |-> classify(kept[i].kind), staged |-> FALSE]]

\* C1: with maxFiles 0 or omitted every non-excluded entry is returned and
\* truncated is false; with 0 < maxFiles < total exactly the first maxFiles
\* entries are returned, in enumeration order, and truncated is true; always
\* total >= files.length and truncated = (maxFiles > 0 /\ total > maxFiles).
C1_Truncation ==
  DiffCalled =>
    LET r == result.value
    IN  /\ r.total = Len(KeptEntries)
        /\ ArgMax = 0 => (r.files = KeptEntries /\ ~r.truncated)
        /\ (ArgMax > 0 /\ ArgMax < r.total) =>
             (r.files = SubSeq(KeptEntries, 1, ArgMax) /\ r.truncated)
        /\ r.total >= Len(r.files)
        /\ r.truncated = (ArgMax > 0 /\ r.total > ArgMax)

C1_Witness ==
  /\ DiffCalled
  /\ ArgMax = 1
  /\ result.value.total = 2
  /\ result.value.truncated
  /\ Len(result.value.files) = 1

\* C2: no returned entry has a path that contains a supplied pattern, and the
\* patterns are applied before the truncation: the entries returned are as many
\* as the non-excluded items of the stream, up to maxFiles, and none of the
\* slots goes to an excluded path.
C2_ExcludeBeforeTruncate ==
  DiffCalled =>
    LET files == result.value.files
        nKept == Cardinality({i \in 1..Len(stream) : NotExcluded(stream[i])})
    IN  /\ \A i \in 1..Len(files) : \A j \in 1..Len(ArgPatterns) :
             ~contains(files[i].path, ArgPatterns[j])
        /\ Len(files) = IF ArgMax > 0 THEN Min(ArgMax, nKept) ELSE nKept
        /\ result.value.total = nKept

\* an excluded item is enumerated first, a kept one after it, and the kept one
\* fills the single slot
C2_Witness ==
  /\ DiffCalled
  /\ ArgMax = 1
  /\ Len(ArgPatterns) = 2
  /\ Len(stream) = 2
  /\ ~NotExcluded(stream[1])
  /\ NotExcluded(stream[2])
  /\ ~contains(stream[1].rela_path, ArgPatterns[1])
  /\ Len(result.value.files) = 1
  /\ result.value.files[1].path = stream[2].rela_path

----------------------------------------------------------------------------
(* Specification SpecBranch: the branch queries over bounded reference stores *)

MaxBranches == 3

LocalNames == {<<"main">>, <<"master">>, <<"develop">>, <<"feature">>, <<"alpha">>}

OriginHeadName == RefsRemotes \o OriginPrefix \o <<"HEAD">>

\* the sequences of local branch entries: distinct names in any enumeration
\* order, each readable or not, every tip at commit 1
LocalStores ==
  {s \in SeqsUpTo({Ref(RefsHeads \o n, <<>>, 1, rd) : n \in LocalNames, rd \in BOOLEAN},
                  MaxBranches) :
     \A i, j \in 1..Len(s) : i # j => s[i].name # s[j].name}

\* no remote, or origin/<b> with origin/HEAD pointing to it
RemoteStores ==
  {<<>>} \cup
  {<<Ref(RefsRemotes \o OriginPrefix \o b, <<>>, 1, TRUE),
     Ref(OriginHeadName, RefsRemotes \o OriginPrefix \o b, 0, TRUE)>> :
     b \in {<<"main">>, <<"feature">>}}

\* HEAD of a store: detached, on one of its readable branches, or unborn on a
\* branch it does not hold
HeadsOf(store) ==
  {[kind |-> "Detached", name |-> <<>>, id |-> 1]}
  \cup {[kind |-> "Symbolic", name |-> store[i].name, id |-> store[i].id] :
          i \in {k \in 1..Len(store) : store[k].readable /\ store[k].sym = <<>>}}
  \cup {[kind |-> "Unborn", name |-> RefsHeads \o n, id |-> 0] :
          n \in {m \in {<<"main">>} : \A i \in 1..Len(store) : store[i].name # RefsHeads \o m}}

InitBranch ==
  /\ stream = NoStream
  /\ \E l \in LocalStores, r \in RemoteStores :
       /\ refs = l \o r
       /\ head \in HeadsOf(l)
  /\ parents = NoParents
  /\ project_refs = NoRefs
  /\ buffer = NoBuffer
  /\ faults = NoFaults
  /\ call = NoCall
  /\ result = NoResult

GetCurrentBranch ==
  /\ call = NoCall
  /\ call' = [op |-> "get_current_branch"]
  /\ result' = get_current_branch(head)
  /\ UNCHANGED env

GetDefaultBranch ==
  /\ call = NoCall
  /\ call' = [op |-> "get_default_branch"]
  /\ result' = get_default_branch(refs)
  /\ UNCHANGED env

ListBranches ==
  /\ call = NoCall
  /\ call' = [op |-> "list_branches"]
  /\ result' = list_branches(refs, head)
  /\ UNCHANGED env

NextBranch == GetCurrentBranch \/ GetDefaultBranch

SpecBranch == InitBranch /\ [][NextBranch]_vars

----------------------------------------------------------------------------
(* Claims about get_default_branch *)

DefaultCalled == call.op = "get_default_branch" /\ result.ok

OriginHeadExists == \E i \in 1..Len(refs) : refs[i].name = OriginHeadName

OriginHeadTarget == refs[CHOOSE i \in 1..Len(refs) : refs[i].name = OriginHeadName].sym

\* C4: when refs/remotes/origin/HEAD exists, getDefaultBranch returns the name
\* of the branch origin/HEAD points to, without its "origin/" prefix ("main"
\* when origin/HEAD points to origin/main), whatever local branches exist.
C4_OriginHeadResolved ==
  (DefaultCalled /\ OriginHeadExists) =>
    result.value = Some(strip_origin(shorten(OriginHeadTarget)))

\* the local branches the enumeration yields, in enumeration order
EnumeratedLocals ==
  LET ls == SelectSeq(refs, LAMBDA r : r.readable /\ SubSeq(r.name, 1, 2) = RefsHeads)
  IN  [i \in 1..Len(ls) |-> SubSeq(ls[i].name, 3, Len(ls[i].name))]

LocalNameSet == {EnumeratedLocals[i] : i \in 1..Len(EnumeratedLocals)}

\* C5: without refs/remotes/origin/HEAD, getDefaultBranch returns "main" if a
\* local branch main exists, else "master", else "develop", else the first
\* local branch enumerated, else none; with one of main/master/develop present
\* the result is a function of the set of local branches alone, not of their
\* enumeration order.
C5_CommonNameFallback ==
  (DefaultCalled /\ ~OriginHeadExists) =>
    result.value =
      IF <<"main">> \in LocalNameSet THEN Some(<<"main">>)
      ELSE IF <<"master">> \in LocalNameSet THEN Some(<<"master">>)
      ELSE IF <<"develop">> \in LocalNameSet THEN Some(<<"develop">>)
      ELSE IF LocalNameSet = {} THEN None
      ELSE Some(EnumeratedLocals[1])

\* "feature" and "master" are enumerated before "main", and main is returned
C5_Witness ==
  /\ DefaultCalled
  /\ ~OriginHeadExists
  /\ Len(EnumeratedLocals) = 3
  /\ EnumeratedLocals[1] = <<"feature">>
  /\ EnumeratedLocals[2] = <<"master">>
  /\ EnumeratedLocals[3] = <<"main">>
  /\ result.value = Some(<<"main">>)

----------------------------------------------------------------------------
(* Specification SpecLines: count_file_lines over bounded byte buffers *)

MaxRuns == 3

LineBytes == {NUL, LF, 97}

\* run lengths that put a byte just inside and just outside the checked prefix
LineRunLens == {1, BINARY_CHECK_LEN - 1, BINARY_CHECK_LEN}

\* the run-length encodings of at most maxRuns runs
Buffers(bytes, lens, maxRuns) ==
  {b \in SeqsUpTo({Run(x, n) : x \in bytes, n \in lens}, maxRuns) :
     \A i \in 1..(Len(b) - 1) : b[i].byte # b[i + 1].byte}

InitLines ==
  /\ stream = NoStream
  /\ head = NoHead
  /\ refs = NoRefs
  /\ parents = NoParents
  /\ project_refs = NoRefs
  /\ buffer \in Buffers(LineBytes, LineRunLens, MaxRuns)
  /\ faults = NoFaults
  /\ call = NoCall
  /\ result = NoResult

CountFileLines ==
  /\ call = NoCall
  /\ call' = [op |-> "count_file_lines"]
  /\ result' = Ok(count_file_lines(Some(buffer)))
  /\ UNCHANGED env

NextLines == CountFileLines

SpecLines == InitLines /\ [][NextLines]_vars

----------------------------------------------------------------------------
(* Claims about count_file_lines *)

RECURSIVE SumN(_, _)
SumN(b, S) ==
  IF S = {} THEN 0
  ELSE LET r == CHOOSE x \in S : TRUE IN b[r].n + SumN(b, S \ {r})

\* offset of the first byte of run r of b
RunStart(b, r) == SumN(b, 1..(r - 1))

\* b has a null byte at an offset below limit
NullBelow(b, limit) ==
  \E r \in 1..Len(b) : b[r].byte = NUL /\ RunStart(b, r) < limit

\* the number of \n bytes of b
NewlineBytes(b) == SumN(b, {r \in 1..Len(b) : b[r].byte = LF})

BufferLen(b) == SumN(b, 1..Len(b))

LinesCalled == call.op = "count_file_lines" /\ result.ok

\* C9: countFileLines(b) is 0 if b is empty or holds a null byte within its
\* first min(len, 8192) bytes; otherwise it is the number of \n bytes of b, plus
\* 1 when the last byte of b is not \n. A null byte at offset 8192 or later
\* does not make it 0.
C9_CountFileLines ==
  LinesCalled =>
    result.value =
      IF buffer = <<>> \/ NullBelow(buffer, Min(BufferLen(buffer), 8192)) THEN 0
      ELSE NewlineBytes(buffer) + (IF buffer[Len(buffer)].byte # LF THEN 1 ELSE 0)

\* 8191 newlines and a letter, then a null byte at offset 8192: counted as
\* text, and the unterminated last line counts
C9_Witness ==
  /\ LinesCalled
  /\ buffer = <<Run(LF, 8191), Run(97, 1), Run(NUL, 1)>>
  /\ result.value = 8192

----------------------------------------------------------------------------
(* get_status_summary as an action, shared by SpecStatus and SpecDiv *)

BaseInputs == {None, Some(<<"main">>)}

ProjectInputs == {None, Some("project")}

\* what repo.merge_base(head_id, upstream_id or base_id) can return in this call
ahead_merge_bases(base_branch) ==
  IF head_ref(head) = None \/ head_commit(head) = None THEN {None}
  ELSE LET target == ahead_target(refs, shorten(head_ref(head)[1]), base_branch)
       IN  IF target = None THEN {None}
           ELSE merge_base(parents, head_commit(head)[1], target[1])

\* what project_repo.merge_base(base_id, branch_id) can return in this call
merged_merge_bases(base_branch, project_cwd) ==
  IF head_ref(head) = None THEN {None}
  ELSE LET tips == merged_targets(refs, project_refs, shorten(head_ref(head)[1]),
                                  base_branch, project_cwd, faults)
       IN  IF tips = None THEN {None}
           ELSE merge_base(parents, tips[1][1], tips[1][2])

GetStatusSummary ==
  \E base_branch \in BaseInputs, project_cwd \in ProjectInputs :
    \E mb_ahead \in ahead_merge_bases(base_branch),
       mb_merged \in merged_merge_bases(base_branch, project_cwd) :
      /\ call = NoCall
      /\ call' = [op |-> "get_status_summary", base_branch |-> base_branch,
                  project_cwd |-> project_cwd]
      /\ result' = get_status_summary(stream, head, refs, parents, project_refs,
                                      base_branch, project_cwd, mb_ahead, mb_merged, faults)
      /\ UNCHANGED env

----------------------------------------------------------------------------
(* Specification SpecStatus: get_status_summary over bounded status streams *)

MaxTail == 2

FilePath == <<"f">>

\* file contents: "a\n", "a\nb", "a\nb\nc\n", "a\nb\nc\nb\nc\n", a binary
\* file, a file of exactly the size ceiling and one a byte over it
TextA == <<Run(97, 1), Run(LF, 1)>>
TextAB == <<Run(97, 1), Run(LF, 1), Run(98, 1)>>
Text3 == <<Run(97, 1), Run(LF, 1), Run(98, 1), Run(LF, 1), Run(99, 1), Run(LF, 1)>>
Text5 == Text3 \o <<Run(98, 1), Run(LF, 1), Run(99, 1), Run(LF, 1)>>
Binary == <<Run(NUL, 1), Run(LF, 1)>>
AtCeiling == <<Run(97, MAX_UNTRACKED_FILE_SIZE - 2), Run(LF, 1), Run(98, 1)>>
OverCeiling == <<Run(97, MAX_UNTRACKED_FILE_SIZE - 1), Run(LF, 1), Run(98, 1)>>

\* an untracked file that is on disk and readable
Untracked(data) == Item("DirectoryContents", FilePath, None, Some(data), Some(BLen(data)))

StatusItems ==
  { Item("Modification", FilePath, Some(Text3), Some(Text5), None),
    Item("Removed", FilePath, Some(TextAB), None, None),
    Item("Conflict", FilePath, None, Some(TextA), None),
    Untracked(TextAB),
    Untracked(<<>>),
    Untracked(Binary),
    Untracked(AtCeiling),
    Untracked(OverCeiling),
    \* metadata fails
    Item("DirectoryContents", FilePath, None, None, None),
    \* metadata succeeds, the read fails
    Item("DirectoryContents", FilePath, None, None, Some(3)),
    Item("Rewrite", FilePath, None, None, None),
    Item("Err", FilePath, None, None, None) }

UntrackedItems == {it \in StatusItems : it.kind = "DirectoryContents"}

MaxPastCap == 1

\* n untracked one-line files
Padding(n) == [i \in 1..n |-> Untracked(TextA)]

\* short streams of any items, and streams that reach the cap: as many
\* untracked files as the cap, or one fewer, followed by a few more
StatusStreams ==
  SeqsUpTo(StatusItems, MaxTail)
  \cup {Padding(n) \o tail : n \in {MAX_UNTRACKED_TO_COUNT - 1, MAX_UNTRACKED_TO_COUNT},
                              tail \in SeqsUpTo(UntrackedItems, MaxPastCap)}

FeatureRef(id) == Ref(heads_ref_name(<<"feature">>), <<>>, id, TRUE)

MainRef(id) == Ref(heads_ref_name(<<"main">>), <<>>, id, TRUE)

UpstreamRef(id) == Ref(upstream_ref_name(<<"feature">>), <<>>, id, TRUE)

\* <<>> or the one reference, for each id of ids
Optional(MakeRef(_), ids) == {<<>>} \cup {<<MakeRef(id)>> : id \in ids}

InitStatus ==
  /\ stream \in StatusStreams
  /\ parents = <<<<>>, <<1>>, <<1>>>>
  /\ head \in {[kind |-> "Detached", name |-> <<>>, id |-> 2],
               [kind |-> "Symbolic", name |-> heads_ref_name(<<"feature">>), id |-> 2]}
  /\ \E up \in Optional(UpstreamRef, {1}), base \in Optional(MainRef, {3}) :
       refs = <<FeatureRef(2)>> \o up \o base
  /\ project_refs = <<FeatureRef(1), MainRef(3)>>
  /\ buffer = NoBuffer
  /\ faults = NoFaults
  /\ call = NoCall
  /\ result = NoResult

NextStatus == GetStatusSummary \/ GetCurrentBranch

SpecStatus == InitStatus /\ [][NextStatus]_vars

----------------------------------------------------------------------------
(* Claims about get_status_summary's first phase and a detached HEAD *)

StatusCalled == call.op = "get_status_summary" /\ result.ok

\* F(lo) + ... + F(hi)
RECURSIVE SumRange(_, _, _)
SumRange(F(_), lo, hi) ==
  IF lo > hi THEN 0
  ELSE IF lo = hi THEN F(lo)
  ELSE LET mid == (lo + hi) \div 2
       IN  SumRange(F, lo, mid) + SumRange(F, mid + 1, hi)

\* the untracked records of the stream, in enumeration order
UntrackedRecords == SelectSeq(stream, LAMBDA it : it.kind = "DirectoryContents")

\* the k-th untracked record is among the first 200 and its size on disk is
\* known, greater than 0 and at most 512 KiB
Counted(k) ==
  LET size == UntrackedRecords[k].size
  IN  k <= 200 /\ size # None /\ size[1] > 0 /\ size[1] <= 524288

\* the lines the k-th untracked record contributes
UntrackedAdded(k) ==
  IF Counted(k) THEN count_file_lines(UntrackedRecords[k].disk) ELSE 0

\* <<added, deleted>> of the i-th record of the stream, (0, 0) unless it is a
\* tracked modification
DiffOf(i) ==
  IF stream[i].kind \in ModificationKinds
    THEN count_lines_for_entry(stream[i].head_blob, stream[i].disk)
    ELSE <<0, 0>>

ModifiedAdded(i) == DiffOf(i)[1]

ModifiedDeleted(i) == DiffOf(i)[2]

ExpectedAdded ==
  SumRange(ModifiedAdded, 1, Len(stream)) + SumRange(UntrackedAdded, 1, Len(UntrackedRecords))

ExpectedDeleted == SumRange(ModifiedDeleted, 1, Len(stream))

\* C3: with HEAD detached getCurrentBranch returns none, and getStatusSummary
\* returns unpushedCommitCount = 0, hasRemoteBranch = false and
\* isMergedIntoBase = false whatever refs, baseBranch and projectPath are given,
\* with dirtyFileCount and the line tallies those of the difference stream.
C3_DetachedHead ==
  head.kind = "Detached" =>
    /\ (call.op = "get_current_branch" /\ result.ok) => result.value = None
    /\ StatusCalled =>
         /\ result.value.unpushed_commit_count = 0
         /\ ~result.value.has_remote_branch
         /\ ~result.value.is_merged_into_base
         /\ result.value.dirty_file_count = Len(stream)
         /\ result.value.lines_added = ExpectedAdded
         /\ result.value.lines_deleted = ExpectedDeleted

\* detached, with an upstream and a base reference in the store and both
\* arguments given, over a stream that adds and deletes lines
C3_Witness ==
  /\ head.kind = "Detached"
  /\ StatusCalled
  /\ call.base_branch # None
  /\ call.project_cwd # None
  /\ Len(refs) = 3
  /\ result.value.dirty_file_count = 2
  /\ result.value.lines_added = 2
  /\ result.value.lines_deleted = 2
  /\ result.value.unpushed_commit_count = 0

\* C8: on every successful call dirtyFileCount is the number of records of the
\* difference stream, each counted once whatever its kind and whether or not
\* its lines are counted; with no records dirtyFileCount, lines_added and
\* lines_deleted are 0 in every branch state.
C8_DirtyCountsEveryRecord ==
  StatusCalled =>
    /\ result.value.dirty_file_count = Cardinality(DOMAIN stream)
    /\ stream = <<>> =>
         /\ result.value.dirty_file_count = 0
         /\ result.value.lines_added = 0
         /\ result.value.lines_deleted = 0

\* a rename and an untracked file over the size ceiling: no lines, two dirty files
C8_Witness ==
  /\ StatusCalled
  /\ Len(stream) = 2
  /\ stream[1].kind = "Rewrite"
  /\ stream[2].kind = "DirectoryContents"
  /\ stream[2].size = Some(524289)
  /\ result.value.dirty_file_count = 2
  /\ result.value.lines_added = 0

\* C10: an untracked file adds its line count to lines_added only if it is
\* among the first 200 untracked records and its size on disk is greater than 0
\* and at most 512 KiB; any other untracked file adds nothing and is still
\* counted in dirtyFileCount; no untracked file adds to lines_deleted.
C10_UntrackedLimits ==
  StatusCalled =>
    /\ result.value.lines_added =
         SumRange(ModifiedAdded, 1, Len(stream))
           + SumRange(UntrackedAdded, 1, Len(UntrackedRecords))
    /\ result.value.lines_deleted = SumRange(ModifiedDeleted, 1, Len(stream))
    /\ result.value.dirty_file_count >= Len(UntrackedRecords)

\* 201 untracked files, the last a readable two-line text file: only the first
\* 200 are counted, all 201 are dirty
C10_Witness ==
  /\ StatusCalled
  /\ Len(UntrackedRecords) = 201
  /\ UntrackedRecords[201].size = Some(3)
  /\ UntrackedRecords[201].disk # None
  /\ count_file_lines(UntrackedRecords[201].disk) = 2
  /\ result.value.lines_added = 200
  /\ result.value.lines_deleted = 0
  /\ result.value.dirty_file_count = 201

----------------------------------------------------------------------------
(* Specification SpecDiv: get_status_summary over bounded commit graphs *)

MaxCommits == 4

\* the parent lists a commit c can have: at most two distinct earlier commits
ParentLists(c) ==
  {ps \in SeqsUpTo(1..(c - 1), 2) : \A i, j \in 1..Len(ps) : i # j => ps[i] # ps[j]}

\* every graph of n commits
Graphs(n) == {g \in [1..n -> SeqsUpTo(1..n, 2)] : \A c \in 1..n : g[c] \in ParentLists(c)}

\* the reference stores a project repository other than the worktree's may have
ProjectStores ==
  {<<FeatureRef(1), MainRef(MaxCommits)>>, <<FeatureRef(MaxCommits), MainRef(1)>>,
   <<MainRef(MaxCommits)>>}

InitDiv ==
  /\ stream \in {<<>>, <<Item("Rewrite", FilePath, None, None, None)>>}
  /\ parents \in Graphs(MaxCommits)
  /\ \E tip \in 1..MaxCommits :
       /\ head = [kind |-> "Symbolic", name |-> heads_ref_name(<<"feature">>), id |-> tip]
       /\ \E up \in Optional(UpstreamRef, 1..MaxCommits),
             base \in Optional(MainRef, 1..MaxCommits) :
            refs = <<FeatureRef(tip)>> \o up \o base
  /\ project_refs \in ProjectStores
  /\ buffer = NoBuffer
  /\ faults = NoFaults
  /\ call = NoCall
  /\ result = NoResult

NextDiv == GetStatusSummary

SpecDiv == InitDiv /\ [][NextDiv]_vars

----------------------------------------------------------------------------
(* Claims about get_status_summary's branch analysis *)

OnBranch == StatusCalled /\ head.kind = "Symbolic"

Branch == SubSeq(head.name, 3, Len(head.name))

HasRef(store, name) == \E i \in 1..Len(store) : store[i].name = name

TipOf(store, name) == store[CHOOSE i \in 1..Len(store) : store[i].name = name].id

UpstreamName == <<"refs/", "remotes/", "origin/">> \o Branch

BaseName == <<"refs/", "heads/">> \o call.base_branch[1]

\* the comparison ref resolves: the upstream if it exists, else the base if given
HasComparison ==
  HasRef(refs, UpstreamName) \/ (call.base_branch # None /\ HasRef(refs, BaseName))

ComparisonTip ==
  IF HasRef(refs, UpstreamName) THEN TipOf(refs, UpstreamName) ELSE TipOf(refs, BaseName)

\* the commits reachable from c, c included
RECURSIVE History(_)
History(c) == {c} \cup UNION {History(parents[c][j]) : j \in 1..Len(parents[c])}

\* C6: on a branch whose comparison ref resolves and has a merge-base with
\* HEAD, unpushedCommitCount is the number of commits of HEAD's history that
\* are not in the history of the upstream (or base), merge commits or not.
C6_AheadCount ==
  (OnBranch /\ HasComparison /\ History(head.id) \cap History(ComparisonTip) # {}) =>
    result.value.unpushed_commit_count =
      Cardinality(History(head.id) \ History(ComparisonTip))

\* the repository the merged check reads
ProjectRepo == IF call.project_cwd = None THEN refs ELSE project_refs

\* C7: isMergedIntoBase is true exactly when every commit reachable from the tip
\* of refs/heads/<branch> is reachable from the tip of refs/heads/<base> in the
\* project repository (both references existing there).
C7_MergedMeansContained ==
  (OnBranch /\ call.base_branch # None
     /\ HasRef(ProjectRepo, BaseName) /\ HasRef(ProjectRepo, <<"refs/", "heads/">> \o Branch)) =>
    result.value.is_merged_into_base =
      (History(TipOf(ProjectRepo, <<"refs/", "heads/">> \o Branch))
         \subseteq History(TipOf(ProjectRepo, BaseName)))

----------------------------------------------------------------------------
(* Specification SpecFault: get_status_summary where calls into gix fail *)

MaxFaults == 1

\* the calls get_status_summary makes once, and the commits a walk may fail to
\* read
Faults ==
  {Fault(what, 0) : what \in {"open", "head_ref", "head_commit", "head_tree", "status",
                              "status_iter", "walk", "project_open"}}
    \cup {Fault("walk_item", c) : c \in 1..3}

FaultSets == {fs \in SUBSET Faults : Cardinality(fs) <= MaxFaults}

\* a symbolic reference whose target does not exist: peeling it fails
DanglingRef(name) == Ref(name, heads_ref_name(<<"gone">>), 0, TRUE)

\* a tracked file whose blob is not found in HEAD's tree, one whose read from
\* disk fails, one where both succeed, and an item that is an error
FaultStreams ==
  { <<>>,
    <<Item("Modification", FilePath, None, Some(Text3), None)>>,
    <<Item("Modification", FilePath, Some(TextAB), None, None)>>,
    <<Item("Modification", FilePath, Some(Text3), Some(Text5), None)>>,
    <<Item("Modification", FilePath, None, Some(Text3), None),
      Item("Err", FilePath, None, None, None)>> }

InitFault ==
  /\ stream \in FaultStreams
  \* a chain 1 <- 2 <- 3, and a root 1 unrelated to 2 <- 3
  /\ parents \in {<<<<>>, <<1>>, <<2>>>>, <<<<>>, <<>>, <<2>>>>}
  /\ head \in {[kind |-> "Symbolic", name |-> heads_ref_name(<<"feature">>), id |-> 3],
               [kind |-> "Detached", name |-> <<>>, id |-> 3],
               [kind |-> "Unborn", name |-> heads_ref_name(<<"feature">>), id |-> 0]}
  /\ \E up \in Optional(UpstreamRef, {1, 2}) \cup {<<DanglingRef(upstream_ref_name(<<"feature">>))>>},
        base \in Optional(MainRef, {1}) \cup {<<DanglingRef(heads_ref_name(<<"main">>))>>} :
       refs = <<FeatureRef(3)>> \o up \o base
  /\ project_refs \in {<<FeatureRef(3), MainRef(1)>>, <<MainRef(1)>>,
                       <<FeatureRef(3), DanglingRef(heads_ref_name(<<"main">>))>>}
  /\ buffer = NoBuffer
  /\ faults \in FaultSets
  /\ call = NoCall
  /\ result = NoResult

NextFault == GetStatusSummary

SpecFault == InitFault /\ [][NextFault]_vars

----------------------------------------------------------------------------
(* Claims about get_status_summary's failures *)

SummaryCalled == call.op = "get_status_summary"

Failing(what) == Fault(what, 0) \in faults

\* opening the repository, reading HEAD (its reference, commit or tree), or
\* creating or iterating the difference stream fails
FatalStep ==
  \/ Failing("open")
  \/ Failing("head_ref") \/ Failing("head_commit") \/ head.kind = "Unborn"
  \/ Failing("head_tree")
  \/ Failing("status") \/ Failing("status_iter")
  \/ \E i \in 1..Len(stream) : stream[i].kind = "Err"

\* the reference exists in the store and peels to a commit
Peels(store, name) ==
  /\ HasRef(store, name)
  /\ LET r == store[CHOOSE i \in 1..Len(store) : store[i].name = name]
     IN  r.sym = <<>>

\* the comparison of the ahead count has no tip: no upstream and no usable
\* base, or the reference it uses does not peel
NoAheadTip ==
  IF HasRef(refs, UpstreamName) THEN ~Peels(refs, UpstreamName)
  ELSE call.base_branch = None \/ ~Peels(refs, BaseName)

\* the merged check has no tips: the project repository does not open, or one
\* of its two references is missing or does not peel
NoMergedTips ==
  \/ Failing("project_open")
  \/ call.base_branch = None
  \/ ~Peels(ProjectRepo, BaseName)
  \/ ~Peels(ProjectRepo, <<"refs/", "heads/">> \o Branch)

\* the lines of a buffer as a comparison side: none for a binary buffer
SideLines(b) ==
  IF b = <<>> \/ NullBelow(b, Min(BufferLen(b), 8192)) THEN 0
  ELSE NewlineBytes(b) + (IF b[Len(b)].byte # LF THEN 1 ELSE 0)

\* <<added, deleted>> of a tracked modification one of whose sides could not be
\* read, that side being empty: every line of the other side is added or deleted
EmptySideDiff(i) ==
  LET it == stream[i]
  IN  IF it.kind \notin ModificationKinds THEN <<0, 0>>
      ELSE IF it.head_blob = None /\ it.disk = None THEN <<0, 0>>
      ELSE IF it.head_blob = None THEN <<SideLines(it.disk[1]), 0>>
      ELSE IF it.disk = None THEN <<0, SideLines(it.head_blob[1])>>
      ELSE DiffOf(i)

EmptySideAdded(i) == EmptySideDiff(i)[1]

EmptySideDeleted(i) == EmptySideDiff(i)[2]

\* the commits of HEAD's history the walk is able to read
ReadableHistory == {c \in History(head.id) : Fault("walk_item", c) \notin faults}

\* C11: getStatusSummary fails exactly when opening the repository, reading
\* HEAD (its reference, commit or tree), or creating or iterating the difference
\* stream fails. Otherwise it returns a summary in which a blob lookup or disk
\* read that failed for a modified path is an empty comparison side; a missing
\* ref, a failed peel, a failed merge-base lookup or an ancestry walk that fails
\* to start gives unpushedCommitCount = 0; an unopenable project repository, a
\* missing ref, a failed peel or a failed merge-base lookup gives
\* isMergedIntoBase = false. A commit that a started walk fails to read is not
\* a failure either: it is passed over and is not counted.
C11_FailureIffFatalStep ==
  SummaryCalled =>
    /\ ~result.ok <=> FatalStep
    /\ result.ok =>
         /\ result.value.lines_added =
              SumRange(EmptySideAdded, 1, Len(stream))
                + SumRange(UntrackedAdded, 1, Len(UntrackedRecords))
         /\ result.value.lines_deleted = SumRange(EmptySideDeleted, 1, Len(stream))
    /\ (result.ok /\ head.kind = "Symbolic") =>
         /\ (NoAheadTip \/ Failing("walk")) => result.value.unpushed_commit_count = 0
         /\ (~NoAheadTip /\ History(head.id) \cap History(ComparisonTip) = {})
              => result.value.unpushed_commit_count = 0
         /\ NoMergedTips => ~result.value.is_merged_into_base
         /\ (~NoMergedTips
               /\ History(TipOf(ProjectRepo, BaseName))
                    \cap History(TipOf(ProjectRepo, <<"refs/", "heads/">> \o Branch)) = {})
              => ~result.value.is_merged_into_base
         /\ result.value.unpushed_commit_count <= Cardinality(ReadableHistory)

\* the walk cannot be started and the blob of the modified file is not found:
\* a summary is returned, with no commit ahead although HEAD is two commits
\* ahead of its upstream, and the three lines on disk added
C11_Witness ==
  /\ SummaryCalled
  /\ result.ok
  /\ faults = {Fault("walk", 0)}
  /\ head.kind = "Symbolic"
  /\ ~NoAheadTip
  /\ Cardinality(History(head.id) \ History(ComparisonTip)) = 2
  /\ Len(stream) = 1
  /\ stream[1].head_blob = None
  /\ result.value.unpushed_commit_count = 0
  /\ result.value.lines_added = 3
  /\ result.value.lines_deleted = 0

----------------------------------------------------------------------------
(* Specification SpecList: list_branches over bounded reference stores *)

MaxRemotes == 3

\* remote-tracking references: branches of origin, origin/HEAD, a branch whose
\* name holds the letters HEAD, a branch of another remote and references
\* directly under refs/remotes/, as git-svn writes them
RemoteEntries ==
  { Ref(RefsRemotes \o <<"origin/", "main">>, <<>>, 1, TRUE),
    Ref(RefsRemotes \o <<"origin/", "main">>, <<>>, 1, FALSE),
    Ref(RefsRemotes \o <<"origin/", "feature">>, <<>>, 1, TRUE),
    Ref(OriginHeadName, RefsRemotes \o <<"origin/", "main">>, 0, TRUE),
    Ref(RefsRemotes \o <<"origin/", "fix-", "HEAD", "-parse">>, <<>>, 1, TRUE),
    Ref(RefsRemotes \o <<"upstream/", "main">>, <<>>, 1, TRUE),
    Ref(RefsRemotes \o <<"main">>, <<>>, 1, TRUE),
    Ref(RefsRemotes \o <<"feature">>, <<>>, 1, FALSE) }

\* the sequences of remote-tracking entries: distinct names in any enumeration
\* order
ListRemoteStores ==
  {s \in SeqsUpTo(RemoteEntries, MaxRemotes) :
     \A i, j \in 1..Len(s) : i # j => s[i].name # s[j].name}

\* at most two local branches, each readable or not
ListLocalStores ==
  {s \in SeqsUpTo({Ref(RefsHeads \o n, <<>>, 1, rd) : n \in {<<"main">>, <<"feature">>},
                                                      rd \in BOOLEAN}, 2) :
     \A i, j \in 1..Len(s) : i # j => s[i].name # s[j].name}

\* HEAD: as HeadsOf gives it for the local branches, or on a direct
\* remote-tracking reference of the store
ListHeadsOf(l, r) ==
  HeadsOf(l)
  \cup {[kind |-> "Symbolic", name |-> r[i].name, id |-> r[i].id] :
          i \in {k \in 1..Len(r) : r[k].readable /\ r[k].sym = <<>>}}

InitList ==
  /\ stream = NoStream
  /\ \E l \in ListLocalStores, r \in ListRemoteStores :
       /\ refs = l \o r
       /\ head \in ListHeadsOf(l, r)
  /\ parents = NoParents
  /\ project_refs = NoRefs
  /\ buffer = NoBuffer
  /\ faults = NoFaults
  /\ call = NoCall
  /\ result = NoResult

NextList == ListBranches

SpecList == InitList /\ [][NextList]_vars

----------------------------------------------------------------------------
(* Claims about list_branches *)

ListCalled == call.op = "list_branches" /\ result.ok

\* the remote-tracking references the enumeration yields whose shortened name
\* does not contain "HEAD", in enumeration order
KeptRemotes ==
  SelectSeq(refs, LAMBDA r :
    /\ r.readable
    /\ SubSeq(r.name, 1, 2) = RefsRemotes
    /\ \A k \in 3..Len(r.name) : r.name[k] # "HEAD")

\* their shortened names, a leading "origin/" removed
StrippedRemotes ==
  [i \in 1..Len(KeptRemotes) |->
     LET short == SubSeq(KeptRemotes[i].name, 3, Len(KeptRemotes[i].name))
     IN  IF short[1] = "origin/" THEN Tail(short) ELSE short]

\* each name once, at the position of its first occurrence
FirstOccurrences(names) ==
  LET keep == {i \in 1..Len(names) : \A j \in 1..(i - 1) : names[j] # names[i]}
      RECURSIVE pick(_)
      pick(i) == IF i = 0 THEN <<>>
                 ELSE IF i \in keep THEN Append(pick(i - 1), names[i])
                 ELSE pick(i - 1)
  IN  pick(Len(names))

\* HEAD names a branch: it is a symbolic reference, its branch born or not
HeadIsSymbolic == head.kind \in {"Symbolic", "Unborn"}

\* C12: listBranches returns the shortened names of the local branches the
\* enumeration yields when there is at least one; only when there are none, the
\* remote-tracking names without those containing "HEAD", a leading "origin/"
\* stripped, each once at the position of its first occurrence; only when that
\* is empty too, the shortened name HEAD points to when HEAD is symbolic, and
\* the empty list when it is not. A reference that fails to resolve is skipped.
C12_ListBranches ==
  ListCalled =>
    result.value =
      IF EnumeratedLocals # <<>> THEN EnumeratedLocals
      ELSE IF StrippedRemotes # <<>> THEN FirstOccurrences(StrippedRemotes)
      ELSE IF HeadIsSymbolic THEN <<SubSeq(head.name, 3, Len(head.name))>>
      ELSE <<>>

====
